---- MODULE Spec2Model ----
(***************************************************************************)
(* Naruto hand-gesture trainer: the two-hand gesture matcher, the          *)
(* hold/cooldown confirmer (GestureRecognizer), the sliding-window         *)
(* GestureStabilizer and the per-frame pipeline of RasenganChallenge.      *)
(*                                                                         *)
(* Units.  Time is counted in ticks of 0.1 s (hold_time 0.4 s = 4 ticks,   *)
(* cooldown 0.5 s = 5 ticks).  Confidences are integer percent: the        *)
(* baseline (l/5 + r/5)/2 is 10*(l+r) percent, the floors are 100, 85, 70  *)
(* and 60, the base threshold 0.80 is 80 and the joined-mode bonus 0.05    *)
(* is 5.  Pixel quantities (centroids, bounding-box widths, landmark       *)
(* offsets) are integers, as HandDetector.get_hands produces them.         *)
(* An Optional value is a sequence of length 0 (None) or 1.                *)
(***************************************************************************)
EXTENDS Integers, Sequences, FiniteSets, TLC

VARIABLES
    now,                 \* time.time() as read by the latest recognize_two_hands call
    current_gesture,     \* GestureRecognizer.current_gesture   (Optional GestureResult)
    gesture_start_time,  \* GestureRecognizer.gesture_start_time (Optional float)
    last_confirmed_time, \* GestureRecognizer.last_confirmed_time
    result,              \* value returned by the latest recognize_two_hands call
    op,                  \* the operation that produced the current state
    confirm_log,         \* the results returned with is_confirmed = True, in order
    run,                 \* the current run of consecutive results with one sign_name
    gesture_buffer,      \* GestureStabilizer.gesture_buffer
    confidence_buffer,   \* GestureStabilizer.confidence_buffer
    samples_added,       \* add_gesture calls since construction or the last clear()
    target_sequence,        \* RasenganChallenge.target_sequence
    current_progress,       \* RasenganChallenge.current_progress
    last_confirmed_gesture, \* RasenganChallenge.last_confirmed_gesture ("None" for None)
    show_rasengan_effect,   \* RasenganChallenge.show_rasengan_effect
    rasengan_start_time,    \* RasenganChallenge.rasengan_start_time
    frame_period,        \* clock ticks between two frames of the camera loop
    frames_done,         \* frames processed so far
    hands_seen,          \* the hands get_hands() returned on the latest frame
    query,               \* arguments of a scoring call (Optional)
    answer               \* what the latest scoring or get_consistency call returned (Optional)

recVars == <<now, current_gesture, gesture_start_time, last_confirmed_time>>
obsVars == <<result, confirm_log, run>>
stabVars == <<gesture_buffer, confidence_buffer, samples_added>>

gameVars == <<target_sequence, current_progress, last_confirmed_gesture,
              show_rasengan_effect, rasengan_start_time>>
frameVars == <<frame_period, frames_done, hands_seen>>
scoreVars == <<query, answer>>

vars == <<recVars, obsVars, stabVars, gameVars, frameVars, scoreVars, op>>

----------------------------------------------------------------------------
(* Program constants *)

confidence_threshold == 80
hold_time == 4
cooldown == 5
hands_distance_threshold == 350
single_hand_min_width == 150
joined_fingers_min_width == 120
joined_threshold_bonus == 5
buffer_size == 10
PINKY_TIP == 20

(* Bounds of the model *)

Epoch == 10        \* first clock reading; time.time() is far above cooldown
Horizon == 10      \* the clock is explored up to Epoch + Horizon
MaxStep == 2       \* largest clock advance between two calls
MaxPeriod == 2     \* longest frame period of the camera loop
MaxFrames == 6     \* frames processed in one exploration of the camera loop
MaxHeldFrames == 10 \* frames processed when the player shows only two signs

MaxTime == Epoch + Horizon

None == <<>>
Some(x) == <<x>>
IsNone(o) == o = <<>>
Val(o) == o[1]

----------------------------------------------------------------------------
(* Gesture library *)

finger_names == <<"thumb", "index", "middle", "ring", "pinky">>
Fingers == {finger_names[i] : i \in 1..Len(finger_names)}
FingerStates == [Fingers -> BOOLEAN]

Up(S) == [f \in Fingers |-> f \in S]

SignOrder == <<"tiger", "horse", "monkey", "dog", "snake", "dragon", "ox">>
Signs == {SignOrder[i] : i \in 1..Len(SignOrder)}

GESTURE_DEFINITIONS ==
    [s \in Signs |->
       CASE s = "tiger"  -> [left_hand |-> Up({"index", "middle"}),
                             right_hand |-> Up({"index", "middle"}), priority |-> 10]
         [] s = "horse"  -> [left_hand |-> Up({"index"}),
                             right_hand |-> Up({"index"}), priority |-> 10]
         [] s = "monkey" -> [left_hand |-> Up(Fingers),
                             right_hand |-> Up(Fingers), priority |-> 9]
         [] s = "dog"    -> [left_hand |-> Up({}),
                             right_hand |-> Up(Fingers), priority |-> 10]
         [] s = "snake"  -> [left_hand |-> Up({}),
                             right_hand |-> Up({}), priority |-> 10]
         [] s = "dragon" -> [left_hand |-> Up({"thumb", "pinky"}),
                             right_hand |-> Up({"thumb", "pinky"}), priority |-> 10]
         [] s = "ox"     -> [left_hand |-> Up({"thumb"}),
                             right_hand |-> Up({"thumb"}), priority |-> 10]]

----------------------------------------------------------------------------
(* _calc_two_hand_confidence *)

RECURSIVE CountMatches(_, _, _)
CountMatches(states, expected, i) ==
    IF i > Len(finger_names) THEN 0
    ELSE (IF states[finger_names[i]] = expected[finger_names[i]] THEN 1 ELSE 0)
         + CountMatches(states, expected, i + 1)

Lesser(a, b) == IF a <= b THEN a ELSE b

FloorOnly(a, b) == b

Max(a, b) == IF a >= b THEN a ELSE b
Min(a, b) == IF a <= b THEN a ELSE b

min_matches(joined_mode) == IF joined_mode THEN 2 ELSE 3

MeetsMinimumEither(left_matches, right_matches, mm) ==
    left_matches >= mm \/ right_matches >= mm

MeetsMinimumExact(left_matches, right_matches, mm) ==
    left_matches = mm /\ right_matches = mm

MeetsMinimum(left_matches, right_matches, mm) ==
    left_matches >= mm /\ right_matches >= mm

BelowMinimum(left_matches, right_matches, mm) ==
    left_matches < mm \/ right_matches < mm

\* The if/elif chain on the two match counts; total_score is the baseline
\* (left_matches/5 + right_matches/5)/2 in percent.
TierScore(left_matches, right_matches, joined_mode) ==
    LET total_score == (20 * left_matches + 20 * right_matches) \div 2
        mm == min_matches(joined_mode)
    IN  IF left_matches = 5 /\ right_matches = 5 THEN Min(100, 100)
        ELSE IF left_matches >= 4 /\ right_matches >= 4
             THEN Min(Max(total_score, 85), 100)
        ELSE IF left_matches >= 3 /\ right_matches >= 3
             THEN Min(Max(total_score, 70), 100)
        ELSE IF MeetsMinimum(left_matches, right_matches, mm)
             THEN Min(Max(total_score, 60), 100)
        ELSE IF BelowMinimum(left_matches, right_matches, mm) THEN 0
        ELSE Min(total_score, 100)

calc_roles_swapped(left_states, right_states, sign_def, joined_mode) ==
    TierScore(CountMatches(right_states, sign_def.left_hand, 1),
              CountMatches(left_states, sign_def.right_hand, 1),
              joined_mode)

calc_left_pattern_for_both(left_states, right_states, sign_def, joined_mode) ==
    TierScore(CountMatches(left_states, sign_def.left_hand, 1),
              CountMatches(right_states, sign_def.left_hand, 1),
              joined_mode)

calc_two_hand_confidence(left_states, right_states, sign_def, joined_mode) ==
    TierScore(CountMatches(left_states, sign_def.left_hand, 1),
              CountMatches(right_states, sign_def.right_hand, 1),
              joined_mode)

----------------------------------------------------------------------------
(* _find_best_gesture: scoring and selection *)

\* scores: the (sign_name, confidence, priority) triples with confidence > 0,
\* in the order of GESTURE_DEFINITIONS.
RECURSIVE ScoreList(_, _, _, _)
ScoreList(left_states, right_states, joined_mode, i) ==
    IF i > Len(SignOrder) THEN <<>>
    ELSE LET sign_name == SignOrder[i]
             sign_def == GESTURE_DEFINITIONS[sign_name]
             confidence == calc_two_hand_confidence(left_states, right_states,
                                                    sign_def, joined_mode)
             rest == ScoreList(left_states, right_states, joined_mode, i + 1)
         IN  IF confidence > 0
             THEN <<[sign_name |-> sign_name, confidence |-> confidence,
                     priority |-> sign_def.priority]>> \o rest
             ELSE rest

\* key=lambda x: (x[1], x[2]) compared as tuples
KeyGreater(a, b) ==
    \/ a.confidence > b.confidence
    \/ a.confidence = b.confidence /\ a.priority > b.priority

RECURSIVE InsertDescTiesFirst(_, _)
InsertDescTiesFirst(x, sorted) ==
    IF sorted = <<>> THEN <<x>>
    ELSE IF ~KeyGreater(Head(sorted), x) THEN <<x>> \o sorted
    ELSE <<Head(sorted)>> \o InsertDescTiesFirst(x, Tail(sorted))

\* list.sort(reverse=True) is stable: equal keys keep their original order.
RECURSIVE InsertDesc(_, _)
InsertDesc(x, sorted) ==
    IF sorted = <<>> THEN <<x>>
    ELSE IF KeyGreater(x, Head(sorted)) THEN <<x>> \o sorted
    ELSE <<Head(sorted)>> \o InsertDesc(x, Tail(sorted))

KeepOrder(list) == list

RECURSIVE SortDesc(_)
SortDesc(list) ==
    IF list = <<>> THEN <<>>
    ELSE LET n == Len(list)
         IN  InsertDesc(list[n], SortDesc(SubSeq(list, 1, n - 1)))

EffectiveThreshold(joined_mode) ==
    confidence_threshold - (IF joined_mode THEN joined_threshold_bonus ELSE 0)

\* The winning candidate (Optional): scores[0] if it reaches the threshold.
SelectBest(left_states, right_states, joined_mode) ==
    LET scores == SortDesc(ScoreList(left_states, right_states, joined_mode, 1))
    IN  IF scores # <<>> /\ scores[1].confidence >= EffectiveThreshold(joined_mode)
        THEN Some(scores[1])
        ELSE None

\* SelectBest tabulated once over all finger states (it reads no state).
BestTable ==
    [l \in FingerStates, r \in FingerStates, j \in BOOLEAN |-> SelectBest(l, r, j)]
        @@ <<>>

BestMatch(left_states, right_states, joined_mode) ==
    BestTable[left_states, right_states, joined_mode]

----------------------------------------------------------------------------
(* _find_best_gesture: hold / cooldown state machine *)

\* Variants of the hold / cooldown tests, each a slip the code could contain.
DisplayName(sign_name) ==
    CASE sign_name = "tiger" -> "Tiger"   [] sign_name = "horse" -> "Horse"
      [] sign_name = "monkey" -> "Monkey" [] sign_name = "dog" -> "Dog"
      [] sign_name = "snake" -> "Snake"   [] sign_name = "dragon" -> "Dragon"
      [] sign_name = "ox" -> "Ox"

SameGestureByDisplayName(best_match) ==
    ~IsNone(current_gesture) /\ Val(current_gesture).sign_name = DisplayName(best_match)

HoldElapsedStrict(current_time) ==
    current_time - Val(gesture_start_time) > hold_time

CooldownIgnored(current_time) ==
    current_time - last_confirmed_time >= 0

CooldownAsHoldTime(current_time) ==
    current_time - last_confirmed_time >= hold_time

SameGesture(best_match) ==
    ~IsNone(current_gesture) /\ Val(current_gesture).sign_name = best_match

HoldElapsedAtOnce(current_time) ==
    current_time - Val(gesture_start_time) >= 0

HoldElapsed(current_time) ==
    current_time - Val(gesture_start_time) >= hold_time

CooldownElapsed(current_time) ==
    current_time - last_confirmed_time >= cooldown

\* What a call leaves behind: the returned value and the three fields.
Outcome(res, cg, st, lct) ==
    [result |-> res, current_gesture |-> cg, gesture_start_time |-> st,
     last_confirmed_time |-> lct]

ClearHoldForgotten ==
    Outcome(None, current_gesture, gesture_start_time, last_confirmed_time)

ClearHold ==
    Outcome(None, None, None, last_confirmed_time)

RestartHoldKeepingStart(fresh, current_time) ==
    Outcome(Some(fresh), Some(fresh),
            IF IsNone(gesture_start_time) THEN Some(current_time) ELSE gesture_start_time,
            last_confirmed_time)

RestartHold(fresh, current_time) ==
    Outcome(Some(fresh), Some(fresh), Some(current_time), last_confirmed_time)

find_best_gesture(left_states, right_states, current_time, joined_mode) ==
    LET best == BestMatch(left_states, right_states, joined_mode)
    IN  IF ~IsNone(best)
        THEN LET fresh == [sign_name |-> Val(best).sign_name,
                           confidence |-> Val(best).confidence,
                           timestamp |-> current_time,
                           is_confirmed |-> FALSE]
             IN  IF SameGesture(fresh.sign_name)
                 THEN IF HoldElapsed(current_time) /\ CooldownElapsed(current_time)
                      THEN Outcome(Some([fresh EXCEPT !.is_confirmed = TRUE]),
                                   current_gesture, gesture_start_time, current_time)
                      ELSE Outcome(Some(fresh), current_gesture, gesture_start_time,
                                   last_confirmed_time)
                 ELSE RestartHold(fresh, current_time)
        ELSE ClearHold

----------------------------------------------------------------------------
(* Hand observations and HandDetector.get_finger_states *)

\* A HandLandmarks value, reduced to what the recognizer reads: the raw label,
\* the number of landmarks (MediaPipe gives 21, indices WRIST..PINKY_TIP), the
\* landmark offsets the finger tests compare (tip minus joint), the hand
\* size, the centroid of the landmarks and the bounding-box width.
Hand(handedness, thumb_dx, raised, cx, w) ==
    [handedness |-> handedness,
     landmarks |-> PINKY_TIP + 1,
     thumb_dx |-> thumb_dx,
     tip_dy |-> [f \in Fingers \ {"thumb"} |-> IF f \in raised THEN -30 ELSE 10],
     hand_size |-> 100,
     cx |-> cx, cy |-> 300, w |-> w]

\* tip < joint - hand_size * 0.05, scaled by 20
Beyond(delta, hand_size) == 20 * delta < -hand_size

get_finger_states(hand) ==
    [f \in Fingers |->
        IF f = "thumb"
        THEN IF hand.handedness = "Right"
             THEN Beyond(hand.thumb_dx, hand.hand_size)
             ELSE Beyond(-hand.thumb_dx, hand.hand_size)
        ELSE Beyond(hand.tip_dy[f], hand.hand_size)]

fingers_up(finger_states) == Cardinality({f \in Fingers : finger_states[f]})

\* get_finger_states indexes the landmarks up to lm[PINKY_TIP] with no length
\* check: on a shorter list the subscript raises IndexError
FingerStatesRaise(hand) == hand.landmarks <= PINKY_TIP

\* _get_center divides by len(landmarks)
CenterRaises(hand) == hand.landmarks = 0

----------------------------------------------------------------------------
(* recognize_two_hands *)

\* distance > hands_distance_threshold, on the squares
TooFar(a, b) ==
    (a.cx - b.cx) * (a.cx - b.cx) + (a.cy - b.cy) * (a.cy - b.cy)
        > hands_distance_threshold * hands_distance_threshold

LeftRoleFirstListed(hands) == hands[1]

LeftRole(hands) == IF hands[1].handedness = "Left" THEN hands[2] ELSE hands[1]
RightRole(hands) == IF hands[1].handedness = "Left" THEN hands[1] ELSE hands[2]

recognize_two_separate_hands(hands, current_time) ==
    LET left_hand == LeftRole(hands)
        right_hand == RightRole(hands)
    IN  IF TooFar(left_hand, right_hand) THEN ClearHold
        ELSE find_best_gesture(get_finger_states(left_hand),
                               get_finger_states(right_hand), current_time, FALSE)

WideEnoughStrict(w) == w > single_hand_min_width

WideEnough(w) == w >= single_hand_min_width

ManyFingers(finger_states, w) ==
    fingers_up(finger_states) >= 3 /\ w >= joined_fingers_min_width

recognize_joined_one_role(hand, current_time) ==
    LET finger_states == get_finger_states(hand)
    IN  IF WideEnough(hand.w) \/ ManyFingers(finger_states, hand.w)
        THEN find_best_gesture(finger_states, Up({}), current_time, TRUE)
        ELSE ClearHold

recognize_joined_hands(hand, current_time) ==
    LET finger_states == get_finger_states(hand)
    IN  IF WideEnough(hand.w)
        THEN find_best_gesture(finger_states, finger_states, current_time, TRUE)
        ELSE IF ManyFingers(finger_states, hand.w)
        THEN find_best_gesture(finger_states, finger_states, current_time, TRUE)
        ELSE ClearHold

\* The calls of recognize_two_hands that end in an exception rather than a
\* return: the centroid of an empty landmark list, or finger states of a short
\* one (read only when the two hands pass the distance gate; always read for a
\* single hand).  No recognizer field is assigned before the raise.
Raises(hands) ==
    IF Len(hands) = 0 THEN FALSE
    ELSE IF Len(hands) >= 2
    THEN \/ CenterRaises(LeftRole(hands)) \/ CenterRaises(RightRole(hands))
         \/ /\ ~TooFar(LeftRole(hands), RightRole(hands))
            /\ FingerStatesRaise(LeftRole(hands)) \/ FingerStatesRaise(RightRole(hands))
    ELSE FingerStatesRaise(hands[1])

recognize_two_hands(hands, current_time) ==
    IF Len(hands) = 0 THEN ClearHold
    ELSE IF Len(hands) >= 2 THEN recognize_two_separate_hands(hands, current_time)
    ELSE recognize_joined_hands(hands[1], current_time)

----------------------------------------------------------------------------
(* Inputs explored *)

RaisedSets == {{"index", "middle"}, {}}
Widths == {119, 120, 149, 150}
SecondCentres == {250, 550, 551}

\* one hand in view, at several widths
OneHand == {<<Hand("Right", 8, r, 200, w)>> : r \in RaisedSets, w \in Widths}

\* two hands in view, near or far; hands[0] gets the left role
TwoHands == {<<Hand("Right", 8, r1, 200, 119), Hand("Left", -8, r2, c, 119)>> :
                r1 \in RaisedSets, r2 \in RaisedSets, c \in SecondCentres}

HandLists == {<<>>} \cup OneHand \cup TwoHands

----------------------------------------------------------------------------
(* GestureStabilizer.  A gesture name of "None" stands for None. *)

\* append, and nothing popped once the buffer is full
PushedEvictNewest(buffer, x) ==
    IF Len(buffer) >= buffer_size THEN buffer ELSE Append(buffer, x)

\* append, then pop(0) on overflow
Pushed(buffer, x) ==
    LET longer == Append(buffer, x)
    IN  IF Len(longer) > buffer_size THEN Tail(longer) ELSE longer

\* weighted_counts as built by the loop: its keys in insertion order ...
RECURSIVE KeysInOrder(_, _)
KeysInOrder(buffer, i) ==
    IF i = 0 THEN <<>>
    ELSE LET before == KeysInOrder(buffer, i - 1)
         IN  IF buffer[i] # "None" /\ \A k \in DOMAIN before : before[k] # buffer[i]
             THEN Append(before, buffer[i])
             ELSE before

\* ... and the value accumulated under a key
SampleWeightUnit(confidences, i) == 1

SampleWeight(confidences, i) == confidences[i]

RECURSIVE WeightedCount(_, _, _, _)
WeightedCount(gestures, confidences, gesture, i) ==
    IF i = 0 THEN 0
    ELSE WeightedCount(gestures, confidences, gesture, i - 1)
         + (IF gestures[i] = gesture THEN SampleWeight(confidences, i) ELSE 0)

\* max(weighted_counts, key=weighted_counts.get): the first key with the
\* largest value
RECURSIVE FirstMax(_, _, _, _)
FirstMax(gestures, confidences, keys, i) ==
    IF i = 1 THEN keys[1]
    ELSE LET best == FirstMax(gestures, confidences, keys, i - 1)
         IN  IF WeightedCount(gestures, confidences, keys[i], Len(gestures))
                    > WeightedCount(gestures, confidences, best, Len(gestures))
             THEN keys[i] ELSE best

Occurrences(gestures, gesture) ==
    Cardinality({i \in DOMAIN gestures : gestures[i] = gesture})

\* count >= buffer_size * 0.6
QuorumStrict(count) == 10 * count > 6 * buffer_size

QuorumOfHeld(count) == 10 * count >= 6 * Len(gesture_buffer)

Quorum(count) == 10 * count >= 6 * buffer_size

\* get_stable_gesture on given buffers
StableGesture(gestures, confidences) ==
    IF gestures = <<>> THEN "None"
    ELSE LET keys == KeysInOrder(gestures, Len(gestures))
         IN  IF keys = <<>> THEN "None"
             ELSE LET best_gesture == FirstMax(gestures, confidences, keys, Len(keys))
                  IN  IF Quorum(Occurrences(gestures, best_gesture)) THEN best_gesture
                      ELSE "None"

get_stable_gesture == StableGesture(gesture_buffer, confidence_buffer)

\* get_consistency: a fraction <<numerator, denominator>>; "return 0" is <<0, 1>>.
\* max(set(non_none), key=non_none.count) may pick any of the most frequent
\* gestures; they all have the same count.
get_consistency_of_non_none ==
    LET non_none == SelectSeq(gesture_buffer, LAMBDA g : g # "None")
    IN  IF gesture_buffer = <<>> \/ non_none = <<>> THEN <<0, 1>>
        ELSE LET most_common ==
                     CHOOSE g \in {non_none[i] : i \in DOMAIN non_none} :
                         \A h \in {non_none[i] : i \in DOMAIN non_none} :
                             Occurrences(non_none, h) <= Occurrences(non_none, g)
             IN  <<Occurrences(non_none, most_common), Len(non_none)>>

get_consistency ==
    IF gesture_buffer = <<>> THEN <<0, 1>>
    ELSE LET non_none == SelectSeq(gesture_buffer, LAMBDA g : g # "None")
         IN  IF non_none = <<>> THEN <<0, 1>>
             ELSE LET most_common ==
                          CHOOSE g \in {non_none[i] : i \in DOMAIN non_none} :
                              \A h \in {non_none[i] : i \in DOMAIN non_none} :
                                  Occurrences(non_none, h) <= Occurrences(non_none, g)
                  IN  <<Occurrences(non_none, most_common), Len(gesture_buffer)>>

----------------------------------------------------------------------------
(* Observers: what a caller can see of the sequence of results *)

Confirmed(res) == ~IsNone(res) /\ Val(res).is_confirmed

SignOf(res) == IF IsNone(res) THEN "None" ELSE Val(res).sign_name

LogAfter(res, current_time) ==
    IF Confirmed(res)
    THEN Append(confirm_log, [time |-> current_time, sign_name |-> Val(res).sign_name])
    ELSE confirm_log

\* A run is a maximal sequence of consecutive calls returning the same sign_name.
\*   first    time of its first call         confirms  its confirmed results so far
\*   after    what the call before it returned
\*   ready    the cooldown since the latest confirmed result had elapsed at first
RunAfter(res, current_time) ==
    IF IsNone(res) THEN None
    ELSE LET hit == IF Val(res).is_confirmed THEN 1 ELSE 0
         IN  IF ~IsNone(run) /\ Val(run).sign_name = Val(res).sign_name
             THEN Some([Val(run) EXCEPT !.confirms = @ + hit])
             ELSE Some([sign_name |-> Val(res).sign_name,
                        first |-> current_time,
                        confirms |-> hit,
                        after |-> IF op = "recognize" THEN SignOf(result) ELSE "None",
                        ready |-> \/ confirm_log = <<>>
                                  \/ current_time - confirm_log[Len(confirm_log)].time
                                        >= cooldown])

----------------------------------------------------------------------------
(* The recognizer driven directly: recognize_two_hands and reset *)

InitRecognizer ==
    /\ now = Epoch
    /\ current_gesture = None
    /\ gesture_start_time = None
    /\ last_confirmed_time = 0
    /\ result = None
    /\ confirm_log = <<>>
    /\ run = None

InitStabilizer ==
    /\ gesture_buffer = <<>>
    /\ confidence_buffer = <<>>
    /\ samples_added = 0

\* RasenganChallenge.__init__; the target sequence is drawn by initialize()
InitGame ==
    /\ target_sequence = <<>>
    /\ current_progress = 0
    /\ last_confirmed_gesture = "None"
    /\ show_rasengan_effect = FALSE
    /\ rasengan_start_time = 0

IdleFrames ==
    /\ frame_period = 0
    /\ frames_done = 0
    /\ hands_seen = <<>>

IdleScore ==
    /\ query = None
    /\ answer = None

Init ==
    /\ InitRecognizer
    /\ InitStabilizer
    /\ InitGame
    /\ IdleFrames
    /\ IdleScore
    /\ op = "init"

Apply(out) ==
    /\ result' = out.result
    /\ current_gesture' = out.current_gesture
    /\ gesture_start_time' = out.gesture_start_time
    /\ last_confirmed_time' = out.last_confirmed_time

Recognize(hands, dt) ==
    /\ now + dt <= MaxTime
    /\ now' = now + dt
    /\ \E out \in {recognize_two_hands(hands, now + dt)} :
           /\ Apply(out)
           /\ confirm_log' = LogAfter(out.result, now + dt)
           /\ run' = RunAfter(out.result, now + dt)
    /\ op' = "recognize"
    /\ UNCHANGED <<stabVars, gameVars, frameVars, scoreVars>>

ResetClearingCooldown ==
    /\ current_gesture' = None
    /\ gesture_start_time' = None
    /\ last_confirmed_time' = 0
    /\ run' = None
    /\ op' = "reset"
    /\ UNCHANGED <<now, result, confirm_log>>
    /\ UNCHANGED <<stabVars, gameVars, frameVars, scoreVars>>

Reset ==
    /\ current_gesture' = None
    /\ gesture_start_time' = None
    /\ run' = None
    /\ op' = "reset"
    /\ UNCHANGED <<now, last_confirmed_time, result, confirm_log>>
    /\ UNCHANGED <<stabVars, gameVars, frameVars, scoreVars>>

Next ==
    \/ \E hands \in HandLists, dt \in 0..MaxStep : Recognize(hands, dt)
    \/ Reset

Spec == Init /\ [][Next]_vars

\* The frame clock keeps advancing: a call that reads a later time is never
\* postponed forever.
ClockAdvances == \E hands \in HandLists, dt \in 1..MaxStep : Recognize(hands, dt)

SpecLive == Spec /\ WF_vars(ClockAdvances)

----------------------------------------------------------------------------
(* The stabilizer driven directly: add_gesture and clear *)

\* samples fed freely
Feed == {<<"None", 0>>, <<"tiger", 50>>, <<"horse", 95>>}

\* the ten samples of the reference window, replayed in order
ScenarioE ==
    << <<"tiger", 90>>, <<"tiger", 90>>, <<"None", 0>>, <<"horse", 95>>,
       <<"tiger", 80>>, <<"tiger", 85>>, <<"tiger", 80>>, <<"None", 0>>,
       <<"tiger", 80>>, <<"tiger", 80>> >>

Window == [i \in DOMAIN gesture_buffer |-> <<gesture_buffer[i], confidence_buffer[i]>>]

add_gesture_twice(gesture_name, confidence) ==
    /\ gesture_buffer' = Pushed(Pushed(gesture_buffer, gesture_name), gesture_name)
    /\ confidence_buffer' = Pushed(Pushed(confidence_buffer, confidence), confidence)
    /\ samples_added' = Min(samples_added + 2, buffer_size + 1)

\* samples_added is counted up to buffer_size + 1: "more than the window holds"
add_gesture(gesture_name, confidence) ==
    /\ gesture_buffer' = Pushed(gesture_buffer, gesture_name)
    /\ confidence_buffer' = Pushed(confidence_buffer, confidence)
    /\ samples_added' = Min(samples_added + 1, buffer_size + 1)

AddGesture(sample) ==
    /\ \A i \in DOMAIN gesture_buffer : Window[i] \in Feed
    /\ add_gesture(sample[1], sample[2])
    /\ op' = "add_gesture"
    /\ answer' = None
    /\ UNCHANGED <<recVars, obsVars, gameVars, frameVars, query>>

ReplayScenario ==
    /\ Len(gesture_buffer) < Len(ScenarioE)
    /\ Window = SubSeq(ScenarioE, 1, Len(gesture_buffer))
    /\ LET sample == ScenarioE[Len(gesture_buffer) + 1]
       IN  add_gesture(sample[1], sample[2])
    /\ op' = "add_gesture"
    /\ answer' = None
    /\ UNCHANGED <<recVars, obsVars, gameVars, frameVars, query>>

Clear ==
    /\ gesture_buffer' = <<>>
    /\ confidence_buffer' = <<>>
    /\ samples_added' = 0
    /\ op' = "clear"
    /\ answer' = None
    /\ UNCHANGED <<recVars, obsVars, gameVars, frameVars, query>>

\* a get_consistency call; answer holds what it returned until the window changes
GetConsistency ==
    /\ answer' = Some(get_consistency)
    /\ op' = "get_consistency"
    /\ UNCHANGED <<recVars, obsVars, stabVars, gameVars, frameVars, query>>

NextStab ==
    \/ \E sample \in Feed : AddGesture(sample)
    \/ ReplayScenario
    \/ Clear
    \/ GetConsistency

SpecStab == Init /\ [][NextStab]_vars

----------------------------------------------------------------------------
(* The matcher as a function: scoring calls on arbitrary finger states *)

Queries == [left_states : FingerStates, right_states : FingerStates,
            joined_mode : BOOLEAN]

InitScore ==
    /\ InitRecognizer
    /\ InitStabilizer
    /\ InitGame
    /\ IdleFrames
    /\ query \in {Some(q) : q \in Queries}
    /\ answer = None
    /\ op = "init"

\* one pass of _find_best_gesture over the library: every template's
\* confidence, and the candidate selected
Score ==
    /\ IsNone(answer)
    /\ LET q == Val(query)
       IN  answer' = Some(
              [confidence |->
                  [s \in Signs |->
                      calc_two_hand_confidence(q.left_states, q.right_states,
                                               GESTURE_DEFINITIONS[s], q.joined_mode)],
               best |-> BestMatch(q.left_states, q.right_states, q.joined_mode)])
    /\ op' = "score"
    /\ UNCHANGED <<recVars, obsVars, stabVars, gameVars, frameVars, query>>

NextScore == Score

SpecScore == InitScore /\ [][NextScore]_vars

----------------------------------------------------------------------------
(* The matcher over a library given as a parameter: GESTURE_DEFINITIONS cut
   down to some of its entries, kept in declaration order *)

\* the loop of _find_best_gesture over the entries of `library`
RECURSIVE ScoreListIn(_, _, _, _, _)
ScoreListIn(library, left_states, right_states, joined_mode, i) ==
    IF i > Len(library) THEN <<>>
    ELSE LET sign_name == library[i]
             sign_def == GESTURE_DEFINITIONS[sign_name]
             confidence == calc_two_hand_confidence(left_states, right_states,
                                                    sign_def, joined_mode)
             rest == ScoreListIn(library, left_states, right_states, joined_mode, i + 1)
         IN  IF confidence > 0
             THEN <<[sign_name |-> sign_name, confidence |-> confidence,
                     priority |-> sign_def.priority]>> \o rest
             ELSE rest

SelectBestIn(library, left_states, right_states, joined_mode) ==
    LET scores == SortDesc(ScoreListIn(library, left_states, right_states,
                                       joined_mode, 1))
    IN  IF scores # <<>> /\ scores[1].confidence >= EffectiveThreshold(joined_mode)
        THEN Some(scores[1])
        ELSE None

Libraries == {<<>>, <<"tiger">>, <<"tiger", "horse", "snake">>}

LibraryStates == {Up({}), Up({"index"}), Up({"index", "middle"}), Up(Fingers)}

InitLibrary ==
    /\ InitRecognizer
    /\ InitStabilizer
    /\ InitGame
    /\ IdleFrames
    /\ query \in {Some([library |-> lib, left_states |-> l, right_states |-> r,
                         joined_mode |-> j]) :
                      lib \in Libraries, l \in LibraryStates, r \in LibraryStates,
                      j \in BOOLEAN}
    /\ answer = None
    /\ op = "init"

\* GestureRecognizer() followed by a first _find_best_gesture call.  Neither
\* __init__ nor _find_best_gesture looks at the size of the library: no path
\* raises, whatever the library holds.
Classify ==
    /\ IsNone(answer)
    /\ LET q == Val(query)
       IN  answer' = Some([best |-> SelectBestIn(q.library, q.left_states,
                                                 q.right_states, q.joined_mode),
                           raised |-> FALSE])
    /\ op' = "classify"
    /\ UNCHANGED <<recVars, obsVars, stabVars, gameVars, frameVars, query>>

NextLibrary == Classify

SpecLibrary == InitLibrary /\ [][NextLibrary]_vars

----------------------------------------------------------------------------
(* RasenganChallenge: check_gesture and the per-frame pipeline *)

Game(progress, last, show, started) ==
    [current_progress |-> progress, last_confirmed_gesture |-> last,
     show_rasengan_effect |-> show, rasengan_start_time |-> started]

GameUnchanged ==
    Game(current_progress, last_confirmed_gesture, show_rasengan_effect,
         rasengan_start_time)

check_gesture_ignoring_last(gesture, clock) ==
    IF show_rasengan_effect THEN GameUnchanged
    ELSE IF current_progress >= Len(target_sequence) THEN GameUnchanged
    ELSE IF gesture = target_sequence[current_progress + 1]
         THEN IF current_progress + 1 >= 5
              THEN Game(current_progress + 1, gesture, TRUE, clock)
              ELSE Game(current_progress + 1, gesture, show_rasengan_effect,
                        rasengan_start_time)
         ELSE Game(current_progress, gesture, show_rasengan_effect,
                   rasengan_start_time)

\* check_gesture, with activate_rasengan inlined; clock is time.time()
check_gesture(gesture, clock) ==
    IF show_rasengan_effect THEN GameUnchanged
    ELSE IF current_progress >= Len(target_sequence) THEN GameUnchanged
    ELSE LET expected == target_sequence[current_progress + 1]
         IN  IF gesture = expected /\ gesture # last_confirmed_gesture
             THEN IF current_progress + 1 >= 5
                  THEN Game(current_progress + 1, gesture, TRUE, clock)
                  ELSE Game(current_progress + 1, gesture, show_rasengan_effect,
                            rasengan_start_time)
             ELSE Game(current_progress, gesture, show_rasengan_effect,
                       rasengan_start_time)

ApplyGame(g) ==
    /\ current_progress' = g.current_progress
    /\ last_confirmed_gesture' = g.last_confirmed_gesture
    /\ show_rasengan_effect' = g.show_rasengan_effect
    /\ rasengan_start_time' = g.rasengan_start_time

\* one wide hand with all five fingers extended (two palms pressed together)
OpenPalm == <<Hand("Right", -8, Fingers \ {"thumb"}, 200, 160)>>

\* frames offered to the camera loop: nobody in view, two near hands forming
\* tiger or snake, two hands too far apart, two joined palms seen as one hand
FrameHands(raised, centre) ==
    <<Hand("Right", 8, raised, 200, 119), Hand("Left", -8, raised, centre, 119)>>

FrameScenes ==
    {<<>>} \cup {FrameHands(r, 250) : r \in RaisedSets} \cup {FrameHands({}, 551)}
        \cup {OpenPalm}

\* sequences generate_new_sequence may draw
TargetSamples ==
    { <<"tiger", "snake", "horse", "ox", "dog">>,
      <<"snake", "monkey", "tiger", "dragon", "ox">> }

\* after initialize(): recognizer and stabilizer constructed, sequence drawn
InitFrame ==
    /\ InitRecognizer
    /\ InitStabilizer
    /\ target_sequence \in TargetSamples
    /\ current_progress = 0
    /\ last_confirmed_gesture = "None"
    /\ show_rasengan_effect = FALSE
    /\ rasengan_start_time = 0
    /\ frame_period \in 1..MaxPeriod
    /\ frames_done = 0
    /\ hands_seen = <<>>
    /\ IdleScore
    /\ op = "init"

\* process_frame.  hands_detected is false exactly when nobody is in view
\* (multi_hand_landmarks is None); recognize_two_hands is called only when it
\* is true.
ProcessFrameWithin(hands, frames) ==
    /\ op # "raised"
    /\ ~Raises(hands)
    /\ frames_done < frames
    /\ frames_done' = frames_done + 1
    /\ hands_seen' = hands
    /\ now' = now + frame_period
    /\ IF Len(hands) > 0
       THEN \E out \in {recognize_two_hands(hands, now + frame_period)} :
               /\ Apply(out)
               /\ confirm_log' = LogAfter(out.result, now + frame_period)
               /\ run' = RunAfter(out.result, now + frame_period)
               /\ IF ~IsNone(out.result)
                  THEN /\ add_gesture(Val(out.result).sign_name,
                                      Val(out.result).confidence)
                       /\ \E stable_gesture \in
                              {StableGesture(
                                  Pushed(gesture_buffer, Val(out.result).sign_name),
                                  Pushed(confidence_buffer, Val(out.result).confidence))} :
                              IF Val(out.result).is_confirmed /\ stable_gesture # "None"
                              THEN ApplyGame(check_gesture(stable_gesture,
                                                           now + frame_period))
                              ELSE ApplyGame(GameUnchanged)
                  ELSE /\ add_gesture("None", 0)
                       /\ ApplyGame(GameUnchanged)
       ELSE /\ add_gesture("None", 0)
            /\ result' = None
            /\ run' = None
            /\ ApplyGame(GameUnchanged)
            /\ UNCHANGED <<current_gesture, gesture_start_time, last_confirmed_time,
                           confirm_log>>
    /\ op' = "process_frame"
    /\ UNCHANGED <<target_sequence, frame_period, scoreVars>>

ProcessFrame(hands) == ProcessFrameWithin(hands, MaxFrames)

NextFrame == \E hands \in FrameScenes : ProcessFrame(hands)

SpecFrame == InitFrame /\ [][NextFrame]_vars

\* A hand observation with fewer landmarks than MediaPipe delivers
ShortHand(hand, count) == [hand EXCEPT !.landmarks = count]

\* frames with one malformed hand: next to a well-formed hand, near or far,
\* and alone as a wide single hand
ShortCounts == {0, 12, PINKY_TIP}

ShortHandScenes ==
    {<<ShortHand(Hand("Right", 8, {"index", "middle"}, 200, 119), n),
       Hand("Left", -8, {"index", "middle"}, c, 119)>> : n \in ShortCounts, c \in {250, 551}}
    \cup {<<ShortHand(OpenPalm[1], n)>> : n \in ShortCounts}

\* process_frame on a frame for which recognize_two_hands raises: nothing in
\* process_frame, run() or the recognizer catches it, so it leaves the `while
\* self.running` loop; main() prints it and cleans up.  The stabilizer is not
\* fed and no later frame is read.
ProcessFrameRaises(hands) ==
    /\ op # "raised"
    /\ Raises(hands)
    /\ frames_done < MaxFrames
    /\ frames_done' = frames_done + 1
    /\ hands_seen' = hands
    /\ now' = now + frame_period
    /\ op' = "raised"
    /\ UNCHANGED <<current_gesture, gesture_start_time, last_confirmed_time, obsVars>>
    /\ UNCHANGED <<stabVars, gameVars, frame_period, scoreVars>>

NextFrameFault ==
    \/ \E hands \in FrameScenes \cup ShortHandScenes : ProcessFrame(hands)
    \/ \E hands \in ShortHandScenes : ProcessFrameRaises(hands)

SpecFrameFault == InitFrame /\ [][NextFrameFault]_vars

\* the camera loop on frames with a single hand in view, at widths around the
\* two width thresholds: an open palm (5 fingers), three fingers, two fingers
JoinedScenes ==
    {<<Hand("Right", -8, Fingers \ {"thumb"}, 200, w)>> : w \in {119, 120, 150}}
    \cup {<<Hand("Right", 8, {"index", "middle", "ring"}, 200, w)>> : w \in {119, 120}}
    \cup {<<Hand("Right", 8, {"index", "middle"}, 200, w)>> : w \in {149, 150}}

NextFrameJoined == \E hands \in JoinedScenes : ProcessFrame(hands)

SpecFrameJoined == InitFrame /\ [][NextFrameJoined]_vars

\* a fist and an open hand as the estimator may label them: the thumb offset
\* that reads as down (fist) or up (open hand) depends on the raw label
Fist(label, cx) == Hand(label, IF label = "Right" THEN 8 ELSE -8, {}, cx, 119)

OpenHand(label, cx) ==
    Hand(label, IF label = "Right" THEN -8 ELSE 8, Fingers \ {"thumb"}, cx, 119)

Labels == {"Left", "Right"}

\* the camera loop on frames with a fist and an open hand 50 px apart, under
\* every pair of raw labels and in both list orders
RoleScenes ==
    {<<Fist(a, 200), OpenHand(b, 250)>> : a \in Labels, b \in Labels}
    \cup {<<OpenHand(a, 200), Fist(b, 250)>> : a \in Labels, b \in Labels}

NextFrameRoles == \E hands \in RoleScenes : ProcessFrame(hands)

SpecFrameRoles == InitFrame /\ [][NextFrameRoles]_vars

\* the camera loop on a player who shows tiger or snake or steps out of view,
\* for enough frames to fill the stabilizer's window
HeldScenes == {FrameHands(r, 250) : r \in RaisedSets} \cup {<<>>}

NextFrameHeld == \E hands \in HeldScenes : ProcessFrameWithin(hands, MaxHeldFrames)

SpecFrameHeld == InitFrame /\ [][NextFrameHeld]_vars

\* the camera loop with GestureRecognizer.reset() called between frames
NextFrameReset ==
    \/ \E hands \in FrameScenes : ProcessFrame(hands)
    \/ Reset

SpecFrameReset == InitFrame /\ [][NextFrameReset]_vars

----------------------------------------------------------------------------
(* RasenganChallenge: the game methods called one by one *)

\* sequences generate_new_sequence may draw: five distinct signs
\* (random.sample), or with repeats when fewer than five images were loaded
\* (random.choices)
GameTargets ==
    TargetSamples \cup { <<"tiger", "tiger", "snake", "tiger", "snake">> }

\* stabilizer windows at the time of a key press: empty, or one sign held for
\* six frames
HeldWindows == {<<>>} \cup {[i \in 1..6 |-> g] : g \in {"tiger", "snake", "horse"}}

\* after initialize()
InitGameLoop ==
    /\ InitRecognizer
    /\ gesture_buffer \in HeldWindows
    /\ confidence_buffer = [i \in DOMAIN gesture_buffer |-> 100]
    /\ samples_added = Len(gesture_buffer)
    /\ target_sequence \in GameTargets
    /\ current_progress = 0
    /\ last_confirmed_gesture = "None"
    /\ show_rasengan_effect = FALSE
    /\ rasengan_start_time = 0
    /\ IdleFrames
    /\ IdleScore
    /\ op = "init"

\* a call check_gesture(gesture)
CheckGesture(gesture) ==
    /\ ApplyGame(check_gesture(gesture, now))
    /\ op' = "check_gesture"
    /\ UNCHANGED <<recVars, obsVars, stabVars, target_sequence, frameVars, scoreVars>>

\* force_confirm_gesture
ForceConfirmGesture ==
    /\ \E stable \in {get_stable_gesture} :
           IF stable # "None" THEN ApplyGame(check_gesture(stable, now))
           ELSE ApplyGame(GameUnchanged)
    /\ op' = "force_confirm_gesture"
    /\ UNCHANGED <<recVars, obsVars, stabVars, target_sequence, frameVars, scoreVars>>

\* restart_game, with generate_new_sequence inlined
RestartGame ==
    /\ target_sequence' \in GameTargets
    /\ current_progress' = 0
    /\ show_rasengan_effect' = FALSE
    /\ last_confirmed_gesture' = "None"
    /\ op' = "restart_game"
    /\ UNCHANGED <<recVars, obsVars, stabVars, rasengan_start_time, frameVars, scoreVars>>

NextGame ==
    \/ \E gesture \in Signs : CheckGesture(gesture)
    \/ ForceConfirmGesture
    \/ RestartGame

SpecGame == InitGameLoop /\ [][NextGame]_vars

----------------------------------------------------------------------------
(* Properties of the hold / cooldown state machine (Spec, SpecLive) *)

Returned == op = "recognize" /\ ~IsNone(result)

\* C1  Cooldown separation: any two results with is_confirmed = true have
\* timestamps at least cooldown apart, whatever their gestures and whatever
\* happened to the hold in between.
CooldownSeparation ==
    \A i, j \in DOMAIN confirm_log :
        i < j => confirm_log[j].time - confirm_log[i].time >= cooldown

\* two confirmations of different gestures, the hold cleared in between
TwoGesturesConfirmed ==
    \E i, j \in DOMAIN confirm_log :
        /\ i < j
        /\ confirm_log[i].sign_name # confirm_log[j].sign_name
        /\ confirm_log[j].time - confirm_log[i].time = cooldown

\* C2  Confirmation condition: a call whose winner is G returns is_confirmed =
\* true iff G is the gesture of the hold in progress, now - started_at >=
\* hold_time and now - last_confirmed_at >= cooldown; last_confirmed_at becomes
\* now exactly then and is unchanged by every other step.  For a run that
\* starts with the cooldown elapsed, some result of the run is confirmed iff
\* the run has lasted hold_time: the first frame at or after hold_time is the
\* first confirmed one.
ConfirmationStep ==
    /\ (op' = "recognize" /\ ~IsNone(result')) =>
          (Val(result').is_confirmed <=>
              /\ ~IsNone(current_gesture)
              /\ Val(current_gesture).sign_name = Val(result').sign_name
              /\ now' - Val(gesture_start_time) >= hold_time
              /\ now' - last_confirmed_time >= cooldown)
    /\ last_confirmed_time' =
          IF op' = "recognize" /\ Confirmed(result') THEN now' ELSE last_confirmed_time
    /\ (op' = "recognize" /\ ~IsNone(run') /\ Val(run').ready) =>
          (Val(run').confirms >= 1 <=> now' - Val(run').first >= hold_time)

ConfirmationCondition == [][ConfirmationStep]_vars

\* the first confirmed frame of a run, exactly hold_time after its start
ConfirmedAtHoldTime ==
    /\ Returned /\ Confirmed(result)
    /\ Val(run).ready /\ Val(run).confirms = 1
    /\ now - Val(run).first = hold_time

\* C3  Single-shot count.  D is the duration of the run so far.
RunDuration == now - Val(run).first

CountedRun ==
    /\ Returned /\ ~IsNone(run)
    /\ Val(run).ready
    /\ RunDuration >= hold_time

Steady(g) == Returned /\ Val(result).sign_name = g

\* the gestures some explored input returns
Winners ==
    {SignOf(IF Len(hands) = 1
            THEN BestMatch(get_finger_states(hands[1]), get_finger_states(hands[1]), TRUE)
            ELSE BestMatch(get_finger_states(LeftRole(hands)),
                           get_finger_states(RightRole(hands)), FALSE)) :
        hands \in HandLists \ {<<>>}} \ {"None"}

EventualConfirmation ==
    \A g \in Winners, n \in 0..(Horizon \div cooldown) :
        (Steady(g) /\ Len(confirm_log) = n /\ now + Max(hold_time, cooldown) <= MaxTime)
            ~> (~Steady(g) \/ Len(confirm_log) > n)

\* a second confirmation within one uninterrupted run
ConfirmedAgain ==
    Returned /\ Confirmed(result) /\ Val(run).confirms = 2

\* C6  No-gesture frames: zero hands, two hands further apart than 350, one
\* hand failing both joined-hands checks, or no template reaching the effective
\* threshold: the call returns None, the hold becomes None and
\* last_confirmed_time is unchanged.
BelowThreshold(left_states, right_states, joined_mode) ==
    \A s \in Signs :
        calc_two_hand_confidence(left_states, right_states, GESTURE_DEFINITIONS[s],
                                 joined_mode)
            < confidence_threshold - (IF joined_mode THEN 5 ELSE 0)

NoGestureInput(hands) ==
    \/ Len(hands) = 0
    \/ /\ Len(hands) = 2
       /\ \/ (hands[1].cx - hands[2].cx) * (hands[1].cx - hands[2].cx)
               + (hands[1].cy - hands[2].cy) * (hands[1].cy - hands[2].cy) > 350 * 350
          \/ BelowThreshold(get_finger_states(LeftRole(hands)),
                            get_finger_states(RightRole(hands)), FALSE)
    \/ /\ Len(hands) = 1
       /\ LET fs == get_finger_states(hands[1])
              joined == \/ hands[1].w >= 150
                        \/ fingers_up(fs) >= 3 /\ hands[1].w >= 120
          IN  ~joined \/ BelowThreshold(fs, fs, TRUE)

NoGestureCall ==
    \A hands \in HandLists, dt \in {0, MaxStep} :
        NoGestureInput(hands) =>
            recognize_two_hands(hands, now + dt)
                = Outcome(None, None, None, last_confirmed_time)

NoGestureStep ==
    (op' = "recognize" /\ IsNone(result')) =>
        /\ IsNone(current_gesture') /\ IsNone(gesture_start_time')
        /\ last_confirmed_time' = last_confirmed_time

WinnerChangeStep ==
    /\ (/\ op' = "recognize" /\ ~IsNone(result')
        /\ \/ IsNone(current_gesture)
           \/ Val(current_gesture).sign_name # Val(result').sign_name)
       => /\ ~Val(result').is_confirmed
          /\ Val(current_gesture').sign_name = Val(result').sign_name
          /\ gesture_start_time' = Some(now')
    /\ (op' = "recognize" /\ ~IsNone(result'))
       => /\ gesture_start_time' = Some(Val(run').first)
          /\ Val(result').is_confirmed => now' - Val(run').first >= hold_time

WinnerChangeRestartsHold == [][WinnerChangeStep]_vars

\* the winner has just changed from another gesture held past hold_time, with
\* the cooldown elapsed: only the restart keeps this frame unconfirmed
WinnerJustChanged ==
    /\ Returned /\ ~Confirmed(result)
    /\ Val(run).after \notin {"None", Val(run).sign_name}
    /\ Val(run).first = now
    /\ gesture_start_time = Some(now)
    /\ now - last_confirmed_time >= cooldown
    /\ confirm_log # <<>>

----------------------------------------------------------------------------
(* Properties of the stabilizer (SpecStab) *)

Present == {gesture_buffer[i] : i \in DOMAIN gesture_buffer} \ {"None"}

\* the summed confidence of a gesture over the window
RECURSIVE SummedConfidence(_, _)
SummedConfidence(g, n) ==
    IF n = 0 THEN 0
    ELSE (IF gesture_buffer[n] = g THEN confidence_buffer[n] ELSE 0)
         + SummedConfidence(g, n - 1)

Weight(g) == SummedConfidence(g, Len(gesture_buffer))

Slots(g) == Cardinality({i \in DOMAIN gesture_buffer : gesture_buffer[i] = g})

Leads(g) == \A h \in Present \ {g} : Weight(h) < Weight(g)

\* C8  Stabilizer acceptance boundary, as claimed: with window size 10 a gesture
\* in exactly 6 slots is returned by get_stable_gesture, one in 5 slots or
\* fewer never is, whatever the confidences.
SixOfTenAccepted ==
    \A g \in Present :
        /\ Slots(g) = 6 => get_stable_gesture = g
        /\ Slots(g) <= 5 => get_stable_gesture # g

\* C8 as amended: a gesture in exactly 6 slots is returned when its summed
\* confidence is the highest of the window; one in 5 slots or fewer never is.
SixOfTenAcceptedWhenLeading ==
    \A g \in Present :
        /\ (Slots(g) = 6 /\ Leads(g)) => get_stable_gesture = g
        /\ Slots(g) <= 5 => get_stable_gesture # g

\* a full window with tiger in 6 slots, horse in 3, and tiger returned
SixSlotsStable ==
    /\ Len(gesture_buffer) = buffer_size
    /\ Slots("tiger") = 6 /\ Slots("horse") = 3
    /\ get_stable_gesture = "tiger"

\* C9  Weighted vote with count gate: the gesture returned has the highest
\* summed confidence of the window and occurs in at least 60% of buffer_size
\* slots; None is returned only if no gesture both leads the vote and meets
\* the gate; the reference window returns tiger.
WeightedVoteWithGate ==
    LET stable == get_stable_gesture
    IN  /\ stable # "None" =>
              /\ stable \in Present
              /\ \A h \in Present : Weight(h) <= Weight(stable)
              /\ 10 * Slots(stable) >= 6 * buffer_size
        /\ stable = "None" =>
              \A g \in Present : ~(Leads(g) /\ 10 * Slots(g) >= 6 * buffer_size)
        /\ Window = ScenarioE => stable = "tiger"

ScenarioEStable ==
    /\ Window = ScenarioE
    /\ Slots("tiger") = 7 /\ Weight("tiger") = 585 /\ Weight("horse") = 95
    /\ get_stable_gesture = "tiger"

----------------------------------------------------------------------------
(* Properties of the frame pipeline (SpecFrame) *)

LastSample == Window[Len(gesture_buffer)]

\* C5  No-hands frames reset the hold in the frame pipeline: after a frame with
\* zero hands the recognizer has no hold in progress and the stabilizer has
\* been fed (None, 0); a gesture seen again after the gap starts a fresh hold
\* window, so a confirmed result has been held for hold_time since the gap.
NoHandsFrameResetsHold ==
    /\ (op = "process_frame" /\ Len(hands_seen) = 0) =>
          /\ IsNone(current_gesture) /\ IsNone(gesture_start_time)
          /\ LastSample = <<"None", 0>>
    /\ (op = "process_frame" /\ Confirmed(result)) =>
          now - Val(run).first >= hold_time

----------------------------------------------------------------------------
(* Properties of the scoring function (SpecScore) *)

Matches(states, expected) == Cardinality({f \in Fingers : states[f] = expected[f]})

LeftMatches(s) == Matches(Val(query).left_states, GESTURE_DEFINITIONS[s].left_hand)
RightMatches(s) == Matches(Val(query).right_states, GESTURE_DEFINITIONS[s].right_hand)
MinRequired == IF Val(query).joined_mode THEN 2 ELSE 3

\* C10  Gate correctness: for every template, pair of finger states and mode, if
\* left_matches < min_required or right_matches < min_required (2 in joined
\* mode, 3 otherwise) the confidence is exactly 0, whatever the other hand.
GateCorrectness ==
    ~IsNone(answer) =>
        \A s \in Signs :
            (LeftMatches(s) < MinRequired \/ RightMatches(s) < MinRequired)
                => Val(answer).confidence[s] = 0

\* joined mode, one hand a single match short of the gate, the other perfect
GateRejectsOneWeakHand ==
    /\ ~IsNone(answer)
    /\ Val(query).joined_mode
    /\ LeftMatches("dog") = 1 /\ RightMatches("dog") = 5
    /\ Val(answer).confidence["dog"] = 0

\* C11  Threshold monotonicity: for every template and both modes, a left hand
\* matching at least as many fingers (right hand fixed), or a right hand
\* matching at least as many fingers (left hand fixed), never gets a lower
\* confidence from _calc_two_hand_confidence.
ThresholdMonotonicity ==
    ~IsNone(answer) =>
        \A s \in Signs, other \in FingerStates :
            LET q == Val(query)
                sign_def == GESTURE_DEFINITIONS[s]
            IN  /\ Matches(other, sign_def.left_hand) >= LeftMatches(s) =>
                      calc_two_hand_confidence(other, q.right_states, sign_def,
                                               q.joined_mode)
                          >= Val(answer).confidence[s]
                /\ Matches(other, sign_def.right_hand) >= RightMatches(s) =>
                      calc_two_hand_confidence(q.left_states, other, sign_def,
                                               q.joined_mode)
                          >= Val(answer).confidence[s]

\* one more matching finger on the left lifts tiger from 0.80 to 0.90
RaisingLeftRaisesScore ==
    /\ ~IsNone(answer)
    /\ ~Val(query).joined_mode
    /\ LeftMatches("tiger") = 3 /\ RightMatches("tiger") = 5
    /\ Val(answer).confidence["tiger"] = 80
    /\ \E other \in FingerStates :
          /\ Matches(other, GESTURE_DEFINITIONS["tiger"].left_hand) = 4
          /\ calc_two_hand_confidence(other, Val(query).right_states,
                                      GESTURE_DEFINITIONS["tiger"], FALSE) = 90

\* The scoring rule as specified, in percent
Baseline(l, r) == 10 * (l + r)

Floored(baseline, floor) == IF baseline > floor THEN baseline ELSE floor

SpecifiedConfidence(l, r, joined_mode) ==
    LET required == IF joined_mode THEN 2 ELSE 3
    IN  IF l < required \/ r < required THEN 0
        ELSE IF l = 5 /\ r = 5 THEN 100
        ELSE IF l >= 4 /\ r >= 4 THEN Floored(Baseline(l, r), 85)
        ELSE IF l >= 3 /\ r >= 3 THEN Floored(Baseline(l, r), 70)
        ELSE Floored(Baseline(l, r), 60)

\* C12  Scoring matches the specified algorithm: the confidence of every
\* template is 0 below the gate, else 1.0 for 5 and 5, else the better of the
\* baseline and the floor 0.85 / 0.70 / 0.60 of its tier; it never exceeds 1.0
\* and is never below the baseline once the gate is passed.
ScoringAsSpecified ==
    ~IsNone(answer) =>
        \A s \in Signs :
            LET confidence == Val(answer).confidence[s]
            IN  /\ confidence = SpecifiedConfidence(LeftMatches(s), RightMatches(s),
                                                    Val(query).joined_mode)
                /\ confidence <= 100
                /\ confidence > 0 =>
                      confidence >= Baseline(LeftMatches(s), RightMatches(s))

\* 3 and 5 matches in two-hand mode: the baseline 0.80 beats the floor 0.70
BaselineBeatsFloor ==
    /\ ~IsNone(answer)
    /\ ~Val(query).joined_mode
    /\ LeftMatches("horse") = 3 /\ RightMatches("horse") = 5
    /\ Val(answer).confidence["horse"] = 80

MaxConfidence ==
    CHOOSE c \in {Val(answer).confidence[s] : s \in Signs} :
        \A s \in Signs : Val(answer).confidence[s] <= c

\* C13  Selection: _find_best_gesture returns a result iff the maximum
\* confidence over the library reaches the effective threshold; the result
\* carries that maximum confidence and, among the templates with it, the
\* highest priority.  Both hands showing index and middle return tiger at 1.0.
SelectionRule ==
    ~IsNone(answer) =>
        LET best == Val(answer).best
            limit == IF Val(query).joined_mode THEN confidence_threshold - 5
                     ELSE confidence_threshold
        IN  /\ ~IsNone(best) <=> MaxConfidence >= limit
            /\ ~IsNone(best) =>
                  /\ Val(best).confidence = MaxConfidence
                  /\ Val(answer).confidence[Val(best).sign_name] = MaxConfidence
                  /\ \A s \in Signs :
                        Val(answer).confidence[s] = MaxConfidence =>
                            GESTURE_DEFINITIONS[s].priority <= Val(best).priority
            /\ (/\ Val(query).left_states = Up({"index", "middle"})
                /\ Val(query).right_states = Up({"index", "middle"})
                /\ ~Val(query).joined_mode) =>
                  /\ ~IsNone(best)
                  /\ Val(best).sign_name = "tiger" /\ Val(best).confidence = 100

\* the tiger hands, scored in two-hand mode
TigerSelected ==
    /\ ~IsNone(answer)
    /\ Val(query).left_states = Up({"index", "middle"})
    /\ Val(query).right_states = Up({"index", "middle"})
    /\ ~Val(query).joined_mode
    /\ Val(answer).best # None
    /\ Val(Val(answer).best).sign_name = "tiger"

\* C14  Asymmetric template: in two-hand mode, left role all fingers down and
\* right role all fingers up returns dog with confidence 1.0; the swapped
\* assignment (left all up, right all down) does not return dog.
DogIsAsymmetric ==
    (~IsNone(answer) /\ ~Val(query).joined_mode) =>
        LET q == Val(query)
            best == Val(answer).best
        IN  /\ (q.left_states = Up({}) /\ q.right_states = Up(Fingers)) =>
                  /\ ~IsNone(best)
                  /\ Val(best).sign_name = "dog" /\ Val(best).confidence = 100
            /\ (q.left_states = Up(Fingers) /\ q.right_states = Up({})) =>
                  (IsNone(best) \/ Val(best).sign_name # "dog")

\* the swapped assignment has been scored, and dog was not returned
SwappedDogScored ==
    /\ ~IsNone(answer)
    /\ ~Val(query).joined_mode
    /\ Val(query).left_states = Up(Fingers) /\ Val(query).right_states = Up({})
    /\ Val(answer).confidence["dog"] = 0
    /\ IsNone(Val(answer).best)

----------------------------------------------------------------------------
(* Properties of the matcher as the frame pipeline drives it (SpecFrame) *)

\* the signs the specified rule may return for a pair of finger states, and
\* the confidence it returns them with
SpecifiedScore(left_states, right_states, joined_mode, s) ==
    SpecifiedConfidence(Matches(left_states, GESTURE_DEFINITIONS[s].left_hand),
                        Matches(right_states, GESTURE_DEFINITIONS[s].right_hand),
                        joined_mode)

SpecifiedTop(left_states, right_states, joined_mode) ==
    CHOOSE c \in {SpecifiedScore(left_states, right_states, joined_mode, s) : s \in Signs} :
        \A s \in Signs : SpecifiedScore(left_states, right_states, joined_mode, s) <= c

AsSpecified(res, left_states, right_states, joined_mode) ==
    LET top == SpecifiedTop(left_states, right_states, joined_mode)
        limit == IF joined_mode THEN confidence_threshold - 5 ELSE confidence_threshold
    IN  IF top >= limit
        THEN /\ ~IsNone(res)
             /\ Val(res).confidence = top
             /\ SpecifiedScore(left_states, right_states, joined_mode,
                               Val(res).sign_name) = top
        ELSE IsNone(res)

JoinedAccepted(hand) ==
    \/ hand.w >= 150
    \/ hand.w >= 120 /\ Cardinality({f \in Fingers : get_finger_states(hand)[f]}) >= 3

WithinGate(hands) ==
    (hands[1].cx - hands[2].cx) * (hands[1].cx - hands[2].cx)
        + (hands[1].cy - hands[2].cy) * (hands[1].cy - hands[2].cy) <= 350 * 350

----------------------------------------------------------------------------
(* Properties of reset() between frames (SpecFrameReset) *)

HoldIdle == IsNone(current_gesture) /\ IsNone(gesture_start_time)

\* C16  reset() sets current_gesture and gesture_start_time to None and changes
\* nothing else: last_confirmed_time, the stabilizer window and the game are
\* as before; a reset() after a reset(), or with no hold in progress, leaves
\* the state as it was.
ResetStep ==
    op' = "reset" =>
        /\ IsNone(current_gesture') /\ IsNone(gesture_start_time')
        /\ last_confirmed_time' = last_confirmed_time
        /\ UNCHANGED <<gesture_buffer, confidence_buffer, samples_added>>
        /\ UNCHANGED <<gameVars, now>>
        /\ (op = "reset" \/ HoldIdle) =>
              UNCHANGED <<recVars, stabVars, gameVars>>

ResetEffect == [][ResetStep]_vars

\* reset() right after a confirming frame: the hold is gone, the cooldown
\* timer and the five samples of the window are still there
ResetAfterConfirmation ==
    /\ op = "reset"
    /\ HoldIdle
    /\ last_confirmed_time = now
    /\ Len(gesture_buffer) >= 5

----------------------------------------------------------------------------
(* Properties of the stabilizer window (SpecStab) *)

WindowShape ==
    /\ Len(gesture_buffer) = Len(confidence_buffer)
    /\ Len(gesture_buffer) <= buffer_size
    /\ Len(gesture_buffer) =
          (IF samples_added <= buffer_size THEN samples_added ELSE buffer_size)

\* an add_gesture step keeps the most recent samples in arrival order: the
\* samples kept are the latest of the window before, shifted, and the new one
\* is last
AddStep ==
    op' = "add_gesture" =>
        LET n == Len(gesture_buffer)
            m == Len(gesture_buffer')
        IN  /\ m = (IF n < buffer_size THEN n + 1 ELSE buffer_size)
            /\ \A i \in 1..(m - 1) :
                  /\ gesture_buffer'[i] = gesture_buffer[n - (m - 1) + i]
                  /\ confidence_buffer'[i] = confidence_buffer[n - (m - 1) + i]

ClearStep ==
    op' = "clear" => (gesture_buffer' = <<>> /\ confidence_buffer' = <<>>)

\* C17  Bounded FIFO window: after any add_gesture and clear calls the two
\* buffers have the same length, at most buffer_size, and hold the most recent
\* min(k, buffer_size) samples added since the last clear in arrival order,
\* the oldest being the one evicted on overflow.
BoundedFifoWindow == []WindowShape /\ [][AddStep /\ ClearStep]_vars

\* an add_gesture on a full window has evicted the oldest sample
OldestEvicted ==
    /\ op = "add_gesture"
    /\ samples_added > buffer_size
    /\ Len(gesture_buffer) = buffer_size
    /\ gesture_buffer[1] # gesture_buffer[buffer_size]

\* occurrences of the most frequent non-None gesture of the window
TopCount ==
    LET counts == {Cardinality({i \in DOMAIN gesture_buffer : gesture_buffer[i] = g}) :
                      g \in Present}
    IN  IF counts = {} THEN 0 ELSE CHOOSE c \in counts : \A d \in counts : d <= c

ConsistencyValue ==
    op = "get_consistency" =>
        LET c == Val(answer)
        IN  /\ c[2] > 0
            /\ 0 <= c[1] /\ c[1] <= c[2]
            /\ TopCount = 0 => c[1] = 0
            /\ gesture_buffer # <<>> => c[1] * Len(gesture_buffer) = TopCount * c[2]

ConsistencyStep == op' = "get_consistency" => UNCHANGED stabVars

\* C18  Consistency metric: get_consistency returns the occurrences of the most
\* frequent non-None gesture divided by the number of samples in the window,
\* 0 for an empty or all-None window, always within [0, 1], and leaves the
\* window as it was.
ConsistencyMetric == []ConsistencyValue /\ [][ConsistencyStep]_vars

\* four tiger, three None and three horse samples: consistency 4/10
ConsistencyWithNone ==
    /\ op = "get_consistency"
    /\ Len(gesture_buffer) = buffer_size
    /\ Cardinality({i \in DOMAIN gesture_buffer : gesture_buffer[i] = "None"}) = 3
    /\ Cardinality({i \in DOMAIN gesture_buffer : gesture_buffer[i] = "tiger"}) = 4
    /\ answer = Some(<<4, 10>>)

----------------------------------------------------------------------------
(* Properties of the frame pipeline: the stabilizer feed (SpecFrame) *)

FrameSample ==
    IF IsNone(result') THEN <<"None", 0>>
    ELSE <<Val(result').sign_name, Val(result').confidence>>

FrameFeedStep ==
    op' = "process_frame" =>
        LET n == Len(gesture_buffer)
            m == Len(gesture_buffer')
        IN  /\ samples_added' = samples_added + 1
            /\ m = (IF n < buffer_size THEN n + 1 ELSE buffer_size)
            /\ <<gesture_buffer'[m], confidence_buffer'[m]>> = FrameSample
            /\ \A i \in 1..(m - 1) :
                  /\ gesture_buffer'[i] = gesture_buffer[n - (m - 1) + i]
                  /\ confidence_buffer'[i] = confidence_buffer[n - (m - 1) + i]

\* C19  Stabilizer fed once per frame: every process_frame call makes exactly
\* one add_gesture, with (sign_name, confidence) of the recognizer's result or
\* with (None, 0) when there is none (no hands, or hands without a match), so
\* the window advances by one sample per frame in frame order.
FedOncePerFrame == [][FrameFeedStep]_vars

\* frames with a match, with no hands and with hands but no match have all
\* been fed: one sample per frame
EveryKindOfFrameFed ==
    /\ op = "process_frame"
    /\ Len(hands_seen) = 2 /\ IsNone(result)
    /\ Len(gesture_buffer) = frames_done
    /\ frames_done >= 3
    /\ \E i, j \in DOMAIN gesture_buffer :
          /\ i < j /\ j < frames_done
          /\ gesture_buffer[i] = "tiger" /\ confidence_buffer[i] = 100
          /\ gesture_buffer[j] = "None"

----------------------------------------------------------------------------
(* Properties of the frame pipeline on malformed hands (SpecFrameFault) *)

MalformedHandSeen ==
    \E i \in DOMAIN hands_seen : hands_seen[i].landmarks < 21

\* C20  Malformed hand isolation: when a hand of the frame carries fewer than
\* 21 landmarks, the frame's processing still completes normally: no exception
\* escapes process_frame, the frame yields no candidate from that hand and the
\* stabilizer is fed for it like for any other frame.
MalformedHandIsolated ==
    MalformedHandSeen =>
        /\ op = "process_frame"
        /\ IsNone(result)
        /\ samples_added = frames_done

----------------------------------------------------------------------------
(* Properties of the matcher over a given library (SpecLibrary) *)

\* C21  Empty library is fatal: with an empty gesture library construction or
\* the first classification ends in an error, rather than completing and
\* returning none.
EmptyLibraryIsFatal ==
    (~IsNone(answer) /\ Val(query).library = <<>>) => Val(answer).raised

----------------------------------------------------------------------------
(* Further properties of the scoring function (SpecScore) *)

\* C22 as stated  Flat floor for unequal hands: in two-hand mode a template
\* with 3 matches on the left and 5 on the right scores a flat 0.70, the same
\* as one with 3 and 3.
FlatFloorForUnequalHands ==
    (~IsNone(answer) /\ ~Val(query).joined_mode) =>
        \A s \in Signs :
            (LeftMatches(s) = 3 /\ RightMatches(s) = 5) =>
                Val(answer).confidence[s] = 70

\* C22  In two-hand mode a template with 3 matches on the left and 5 on the
\* right scores its baseline 0.80, above the 0.70 that 3 and 3 score: the
\* floor is taken as a maximum with the baseline, so the stronger hand counts.
UnequalHandsKeepBaseline ==
    (~IsNone(answer) /\ ~Val(query).joined_mode) =>
        \A s \in Signs :
            /\ (LeftMatches(s) = 3 /\ RightMatches(s) = 5) =>
                  Val(answer).confidence[s] = 80
            /\ (LeftMatches(s) = 3 /\ RightMatches(s) = 3) =>
                  Val(answer).confidence[s] = 70

\* one query scoring snake at (3, 5) and ox at (3, 3)
UnequalAndEqualHandsScored ==
    /\ ~IsNone(answer)
    /\ ~Val(query).joined_mode
    /\ LeftMatches("snake") = 3 /\ RightMatches("snake") = 5
    /\ Val(answer).confidence["snake"] = 80
    /\ \E s \in Signs :
          /\ LeftMatches(s) = 3 /\ RightMatches(s) = 3
          /\ Val(answer).confidence[s] = 70

----------------------------------------------------------------------------
(* Properties of the joined-hands decision (SpecFrameJoined) *)

Extended(hand) == Cardinality({f \in Fingers : get_finger_states(hand)[f]})

\* what a single-hand frame returns when joined mode is engaged exactly under
\* `engaged`
SingleHandOutcome(engaged) ==
    IF engaged
    THEN AsSpecified(result, get_finger_states(hands_seen[1]),
                     get_finger_states(hands_seen[1]), TRUE)
    ELSE IsNone(result) /\ HoldIdle

\* C23 as stated  Joined-hands decision: with one hand of width w and k
\* extended fingers, joined mode is engaged iff w > 150, or k >= 3 and w > 120.
JoinedDecisionStrict ==
    (op = "process_frame" /\ Len(hands_seen) = 1) =>
        SingleHandOutcome(\/ hands_seen[1].w > 150
                          \/ Extended(hands_seen[1]) >= 3 /\ hands_seen[1].w > 120)

\* C23  Joined-hands decision: with one hand of width w and k extended
\* fingers, joined mode is engaged iff w >= 150, or k >= 3 and w >= 120; in
\* every other case no match is attempted and the hold is cleared.
JoinedDecisionInclusive ==
    (op = "process_frame" /\ Len(hands_seen) = 1) =>
        SingleHandOutcome(\/ hands_seen[1].w >= 150
                          \/ Extended(hands_seen[1]) >= 3 /\ hands_seen[1].w >= 120)

\* three fingers at width exactly 120: joined mode engaged, tiger returned
JoinedAtLowerBoundary ==
    /\ op = "process_frame"
    /\ Len(hands_seen) = 1
    /\ hands_seen[1].w = 120 /\ Extended(hands_seen[1]) = 3
    /\ SignOf(result) = "tiger"

----------------------------------------------------------------------------
(* Properties of the role assignment (SpecFrameRoles) *)

TwoHandFrame == op = "process_frame" /\ Len(hands_seen) = 2 /\ WithinGate(hands_seen)

SeenStates(i) == get_finger_states(hands_seen[i])

ThumbFollowsRole ==
    (TwoHandFrame /\ hands_seen[1].handedness # hands_seen[2].handedness) =>
        \A i \in 1..2 :
            LET hand == hands_seen[i]
                right_role == hand.handedness = "Left"
            IN  /\ SeenStates(i)["thumb"] =
                      (IF right_role THEN 20 * hand.thumb_dx < -hand.hand_size
                       ELSE 20 * hand.thumb_dx > hand.hand_size)
                /\ \A f \in Fingers \ {"thumb"} :
                      SeenStates(i)[f] = (20 * hand.tip_dy[f] < -hand.hand_size)

\* C26  Checked gesture equals confirmed gesture: whenever a frame's result is
\* confirmed and check_gesture is called, the gesture passed to it (the stable
\* gesture of the window that already holds the frame's sample) is the
\* result's sign_name, at every frame rate and after every frame history.
CheckedGesture == StableGesture(gesture_buffer, confidence_buffer)

CheckCalled ==
    op = "process_frame" /\ Confirmed(result) /\ CheckedGesture # "None"

CheckedIsConfirmedAlways == CheckCalled => CheckedGesture = SignOf(result)

\* C26 amended: the same, for frames no further apart than a quarter of the
\* hold time (the confirmed sign then fills at least five of the ten slots)
CheckedIsConfirmedWhenFast ==
    (CheckCalled /\ 4 * frame_period <= hold_time) => CheckedGesture = SignOf(result)

CheckedAtFullWindow ==
    /\ CheckCalled /\ 4 * frame_period <= hold_time
    /\ Len(gesture_buffer) = buffer_size
    /\ CheckedGesture = SignOf(result)
    /\ last_confirmed_gesture = CheckedGesture

\* C27  Warm-up of the stabilizer: starting from an empty window (a new
\* stabilizer, or after clear), get_stable_gesture returns None until some
\* gesture has been added at least ceil(0.6 * buffer_size) times: the 60% gate
\* is taken against the capacity, not against the number of samples held, even
\* when every sample so far is the same gesture and get_consistency reports 1.
WarmUpCount == (6 * buffer_size + 9) \div 10

StabilizerWarmUp ==
    /\ samples_added < WarmUpCount => get_stable_gesture = "None"
    /\ get_stable_gesture # "None" =>
           Occurrences(gesture_buffer, get_stable_gesture) >= WarmUpCount

WarmingUpAtFullConsistency ==
    /\ op = "get_consistency"
    /\ Val(answer)[1] = Val(answer)[2]
    /\ samples_added = WarmUpCount - 1
    /\ \A i \in DOMAIN gesture_buffer : gesture_buffer[i] = "tiger"
    /\ get_stable_gesture = "None"

\* C28  Full ties go to library order: when two templates have equal
\* confidence and equal priority, the one declared earlier in
\* GESTURE_DEFINITIONS is returned; both hands showing thumb and index tie
\* horse and ox at 0.85 and the result is horse.
Declared(sign_name) == CHOOSE i \in DOMAIN SignOrder : SignOrder[i] = sign_name

ThumbAndIndexQuery ==
    /\ Val(query).left_states = Up({"thumb", "index"})
    /\ Val(query).right_states = Up({"thumb", "index"})
    /\ ~Val(query).joined_mode

TiesGoToLibraryOrder ==
    ~IsNone(answer) =>
        LET best == Val(answer).best
            scored == Val(answer).confidence
        IN  /\ ~IsNone(best) =>
                  \A s \in Signs :
                      (/\ scored[s] = Val(best).confidence
                       /\ GESTURE_DEFINITIONS[s].priority = Val(best).priority)
                          => Declared(Val(best).sign_name) <= Declared(s)
            /\ ThumbAndIndexQuery =>
                  /\ scored["horse"] = 85 /\ scored["ox"] = 85
                  /\ ~IsNone(best) /\ Val(best).sign_name = "horse"

HorseWinsTieWithOx ==
    /\ ~IsNone(answer)
    /\ ThumbAndIndexQuery
    /\ Val(answer).confidence["horse"] = Val(answer).confidence["ox"]
    /\ GESTURE_DEFINITIONS["horse"].priority = GESTURE_DEFINITIONS["ox"].priority
    /\ Val(Val(answer).best).sign_name = "horse"

\* C29  Asymmetric template unreachable in joined mode: for every finger state
\* of a single hand scored as joined hands (the same state in both roles) and
\* every base threshold of at least 0.70, the result is never dog: against
\* dog's opposite left and right patterns the state reaches at most 0.60,
\* below the lowest effective threshold 0.70 - 0.05.
JoinedQuery ==
    /\ ~IsNone(answer)
    /\ Val(query).joined_mode
    /\ Val(query).left_states = Val(query).right_states

DogUnreachableWhenJoined ==
    JoinedQuery =>
        LET best == Val(answer).best
            dog == Val(answer).confidence["dog"]
        IN  /\ dog <= 60
            /\ \A base \in 70..100 : dog < base - joined_threshold_bonus
            /\ ~IsNone(best) => Val(best).sign_name # "dog"

DogAtItsJoinedMaximum ==
    /\ JoinedQuery
    /\ Val(answer).confidence["dog"] = 60
    /\ ~IsNone(Val(answer).best)
    /\ Val(Val(answer).best).sign_name = "tiger"

\* C30  Sequence progress invariant: after any sequence of check_gesture,
\* force_confirm_gesture and restart_game calls, 0 <= current_progress <= 5;
\* current_progress changes only by +1 in a check_gesture call whose gesture
\* equals target_sequence[current_progress] and differs from
\* last_confirmed_gesture, or to 0 on restart; the Rasengan effect is shown
\* iff current_progress = 5, and while it is shown check_gesture changes no
\* state.
ProgressInRange ==
    /\ current_progress \in 0..5
    /\ show_rasengan_effect <=> current_progress = 5

ChecksGesture == op' \in {"check_gesture", "force_confirm_gesture"}

ProgressStep ==
    /\ current_progress' # current_progress =>
          \/ /\ ChecksGesture
             /\ current_progress' = current_progress + 1
             /\ last_confirmed_gesture' = target_sequence[current_progress + 1]
             /\ last_confirmed_gesture' # last_confirmed_gesture
          \/ /\ op' = "restart_game"
             /\ current_progress' = 0
    /\ (show_rasengan_effect /\ ChecksGesture) =>
          UNCHANGED <<gameVars, stabVars, recVars>>

SequenceProgress == []ProgressInRange /\ [][ProgressStep]_vars

RasenganUnlocked ==
    /\ op = "check_gesture"
    /\ current_progress = 5
    /\ show_rasengan_effect
    /\ last_confirmed_gesture = target_sequence[5]

====
